---- MODULE Spec2Model ----
(***************************************************************************)
(* Model of nifti_dynamic: aorta_rois.py (boundary detection, anatomical   *)
(* segmentation, uptake refinement, cylindrical VOI placement) and         *)
(* patlak.py (chunked voxel-wise Patlak driver).                           *)
(*                                                                         *)
(* A volume of shape <<nx, ny, nz>> is the set of its nonzero voxels       *)
(* <<x, y, z>> (0-based, z the last numpy axis); a labeled volume or an    *)
(* activity frame is a function on Voxels(shape).                          *)
(***************************************************************************)
EXTENDS Integers, Sequences, FiniteSets

VARIABLES
    pc,              \* position in the call being modelled
    shape,           \* <<nx, ny, nz>> of the volumes
    aorta,           \* the binary mask passed in (aorta mask, or one zone mask)
    pet,             \* the activity frame (pet_40s)
    params,          \* voxel_size, volume (volume_ml * 1000, in mm^3), cylinder_width
    boundaries,      \* <<ix_start, ix_curve>> once found
    aorta_segments,  \* the labeled volume
    seg_i,           \* the AortaSegment the loop of extract_aorta_vois is at
    vois,            \* the VOI volume being filled
    placement,       \* start_slice and n_slices_needed of the last VOI placed
    error,           \* the exception raised, or "none"
    chunks,          \* the OverlappedChunkIterator: sizes and current position
    window,          \* the chunk descriptor of the last step
    out              \* how often each index of out's chunked axis was stored to

roiVars == <<shape, aorta, pet, params, boundaries, aorta_segments, seg_i, vois,
             placement>>

patlakVars == <<chunks, window, out>>

vars == <<pc, error, roiVars, patlakVars>>

(* ---------------------------- bounds ----------------------------------- *)
MaxSlices == 7      \* height of the exhaustively enumerated stacks
MaxRun == 4         \* longest run of equal slices in the run-shaped masks
MaxLeg == 3         \* longest run in the masks fed to extract_aorta_vois
CylSlices == 4      \* axial extent of the volumes fed to create_cylindrical_voi
CylWidth == 3       \* in-plane extent of those volumes
MaxWidth == 3       \* largest cylinder_width
MaxVolume == 20     \* largest target volume, in mm^3
MaxLen == 6         \* largest extent of the chunked axis
MaxChunk == 4       \* largest axial_chunk_size
MaxBorder == 2      \* largest border_size tried directly
MaxSigma == 1       \* largest gaussian_filter_size

(* ------------------------- AortaSegment enum --------------------------- *)
ASCENDING == 1
TOP == 2
DESCENDING == 3
DESCENDING_BOTTOM == 4

(* --------------------------- array helpers ----------------------------- *)
Voxels(sh) == (0 .. sh[1] - 1) \X (0 .. sh[2] - 1) \X (0 .. sh[3] - 1)

NoVolume == [v \in {} |-> 0]

Max2(a, b) == IF a >= b THEN a ELSE b
Min2(a, b) == IF a <= b THEN a ELSE b

\* position of a voxel in C (row-major) order: last axis fastest
RasterIndex(sh, v) == (v[1] * sh[2] + v[2]) * sh[3] + v[3]

\* face adjacency: scipy.ndimage.label's default structuring element
Adjacent(u, v) ==
    LET d1 == IF u[1] >= v[1] THEN u[1] - v[1] ELSE v[1] - u[1]
        d2 == IF u[2] >= v[2] THEN u[2] - v[2] ELSE v[2] - u[2]
        d3 == IF u[3] >= v[3] THEN u[3] - v[3] ELSE v[3] - u[3]
    IN d1 + d2 + d3 = 1

RECURSIVE Grow(_, _, _)
Grow(seen, front, S) ==
    LET next == {v \in S \ seen : \E u \in front : Adjacent(u, v)}
    IN IF next = {} THEN seen ELSE Grow(seen \union next, next, S)

\* scipy.ndimage.label: the components of S, numbered in raster order of their
\* first voxel (component k of the result carries label k)
RECURSIVE label(_, _)
label(sh, S) ==
    IF S = {} THEN <<>>
    ELSE LET first == CHOOSE v \in S : \A w \in S : RasterIndex(sh, v) <= RasterIndex(sh, w)
             comp == Grow({first}, {first}, S)
         IN <<comp>> \o label(sh, S \ comp)

count_connected_components(sh, slice_2d) == Len(label(sh, slice_2d))

count_axial_components(sh, volume) ==
    [sl \in 1 .. sh[3] |-> count_connected_components(sh, {v \in volume : v[3] = sl - 1})]

\* scipy 'reflect' boundary mode (d c b a | a b c d | d c b a), 0-based index
ReflectIndex(i, n) ==
    LET m == i % (2 * n)
    IN IF m < n THEN m ELSE 2 * n - 1 - m

\* the median of a 5-element window
Median5(w) ==
    CHOOSE m \in {w[i] : i \in 1 .. 5} :
        /\ Cardinality({i \in 1 .. 5 : w[i] < m}) <= 2
        /\ Cardinality({i \in 1 .. 5 : w[i] <= m}) >= 3

\* scipy.ndimage.median_filter(islands, size=5), mode='reflect'
median_filter(arr) ==
    LET n == Len(arr)
    IN [i \in 1 .. n |->
          Median5([k \in 1 .. 5 |-> arr[ReflectIndex(i - 1 + k - 3, n) + 1]])]

PatternStart == <<1, 1, 2, 2>>
PatternCurve == <<2, 2, 1, 1>>

\* 0-based positions at which pattern matches array (sliding_window_view + all)
MatchIndices(array, pattern) ==
    {i \in 0 .. Len(array) - Len(pattern) :
        \A k \in 1 .. Len(pattern) : array[i + k] = pattern[k]}

\* variant: several matches tolerated, the first one taken
find_pattern_transition_FirstMatch(array, pattern) ==
    LET indices == MatchIndices(array, pattern)
    IN IF Len(array) < Len(pattern) \/ indices = {}
       THEN [raised |-> TRUE, ix |-> 0]
       ELSE [raised |-> FALSE,
             ix |-> (CHOOSE i \in indices : \A j \in indices : i <= j)
                    + Len(pattern) \div 2]

\* variant: the start of the match returned instead of its middle
find_pattern_transition_NoOffset(array, pattern) ==
    LET indices == MatchIndices(array, pattern)
    IN IF Len(array) < Len(pattern) \/ Cardinality(indices) # 1
       THEN [raised |-> TRUE, ix |-> 0]
       ELSE [raised |-> FALSE, ix |-> CHOOSE i \in indices : TRUE]

\* variant: no match is not an error, the middle of the first window returned
find_pattern_transition_NoRaise(array, pattern) ==
    LET indices == MatchIndices(array, pattern)
    IN IF Cardinality(indices) > 1
       THEN [raised |-> TRUE, ix |-> 0]
       ELSE [raised |-> FALSE,
             ix |-> (IF indices = {} THEN 0 ELSE CHOOSE i \in indices : TRUE)
                    + Len(pattern) \div 2]

\* raises ValueError unless exactly one window matches (a window longer than
\* the array makes sliding_window_view raise ValueError too)
find_pattern_transition(array, pattern) ==
    LET indices == MatchIndices(array, pattern)
    IN IF Len(array) < Len(pattern) \/ Cardinality(indices) # 1
       THEN [raised |-> TRUE, ix |-> 0]
       ELSE [raised |-> FALSE,
             ix |-> (CHOOSE i \in indices : TRUE) + Len(pattern) \div 2]

SmoothedIslands(sh, aorta_volume) ==
    LET islands == count_axial_components(sh, aorta_volume)
        capped == [i \in 1 .. Len(islands) |-> Min2(islands[i], 2)]
    IN median_filter(capped)

\* lines 62-65: both searches must succeed
BoundariesFrom(s, c) ==
    IF s.raised \/ c.raised
    THEN [raised |-> TRUE, ix_start |-> 0, ix_curve |-> 0]
    ELSE [raised |-> FALSE, ix_start |-> s.ix, ix_curve |-> c.ix]

TransitionsIn(islands) ==
    BoundariesFrom(find_pattern_transition(islands, PatternStart),
                   find_pattern_transition(islands, PatternCurve))

find_aortic_segments_boundaries(sh, aorta_volume) ==
    TransitionsIn(SmoothedIslands(sh, aorta_volume))

\* variant: the comparison of line 81 reversed
mapping_Flipped(labeled) ==
    LET n1 == IF Len(labeled) >= 1 THEN Cardinality(labeled[1]) ELSE 0
        n2 == IF Len(labeled) >= 2 THEN Cardinality(labeled[2]) ELSE 0
    IN IF n1 < n2 THEN <<DESCENDING, ASCENDING>> ELSE <<ASCENDING, DESCENDING>>

\* the lookup table of lines 81-84, indexed by component label 1 or 2
mapping(labeled) ==
    LET n1 == IF Len(labeled) >= 1 THEN Cardinality(labeled[1]) ELSE 0
        n2 == IF Len(labeled) >= 2 THEN Cardinality(labeled[2]) ELSE 0
    IN IF n1 > n2 THEN <<DESCENDING, ASCENDING>> ELSE <<ASCENDING, DESCENDING>>

\* variant: the top section marked from ix_curve + 1 on
LabelSegments_TopOffByOne(sh, mask, ix_start, ix_curve) ==
    LET labeled == label(sh, {v \in mask : v[3] < ix_curve})
        m == mapping(labeled)
        mapped(v) == IF \E k \in 1 .. Len(labeled) : v \in labeled[k]
                     THEN m[CHOOSE k \in 1 .. Len(labeled) : v \in labeled[k]]
                     ELSE 0
        topped(v) == IF v[3] > ix_curve
                     THEN (IF v \in mask THEN TOP ELSE 0)
                     ELSE mapped(v)
    IN [v \in Voxels(sh) |->
          IF topped(v) = DESCENDING /\ v[3] < ix_start
          THEN DESCENDING_BOTTOM ELSE topped(v)]

\* lines 73-95 of segment_aorta, given the boundaries
LabelSegments(sh, mask, ix_start, ix_curve) ==
    LET labeled == label(sh, {v \in mask : v[3] < ix_curve})
        m == mapping(labeled)
        mapped(v) == IF \E k \in 1 .. Len(labeled) : v \in labeled[k]
                     THEN m[CHOOSE k \in 1 .. Len(labeled) : v \in labeled[k]]
                     ELSE 0
        topped(v) == IF v[3] >= ix_curve
                     THEN (IF v \in mask THEN TOP ELSE 0)
                     ELSE mapped(v)
    IN [v \in Voxels(sh) |->
          IF topped(v) = DESCENDING /\ v[3] < ix_start
          THEN DESCENDING_BOTTOM ELSE topped(v)]

\* segment_aorta: error is "ValueError" (boundary detection), "IndexError"
\* (mapping[labeled] with a third component label) or "none"
SegmentFrom(sh, mask, b) ==
    IF b.raised
    THEN [error |-> "ValueError", ix |-> <<>>, seg |-> NoVolume]
    ELSE IF Len(label(sh, {v \in mask : v[3] < b.ix_curve})) > 2
    THEN [error |-> "IndexError", ix |-> <<b.ix_start, b.ix_curve>>, seg |-> NoVolume]
    ELSE [error |-> "none", ix |-> <<b.ix_start, b.ix_curve>>,
          seg |-> LabelSegments(sh, mask, b.ix_start, b.ix_curve)]

segment_aorta(sh, mask) ==
    SegmentFrom(sh, mask, find_aortic_segments_boundaries(sh, mask))

(* ------------------- refine_aorta_with_pet_uptake ---------------------- *)
\* the k-th smallest of the values f[v], v in S
KthSmallest(S, f, k) ==
    CHOOSE x \in {f[v] : v \in S} :
        /\ Cardinality({v \in S : f[v] < x}) < k
        /\ Cardinality({v \in S : f[v] <= x}) >= k

\* twice the numpy median of f over S (the mean of the two middle values when
\* S has an even number of elements); S nonempty
MedianTwice(S, f) ==
    KthSmallest(S, f, (Cardinality(S) + 1) \div 2)
        + KthSmallest(S, f, Cardinality(S) \div 2 + 1)

\* line 183: twice the median activity of the labeled voxels; the median of
\* no voxel is nan
LabeledMedian(seg, activity) ==
    LET labeled == {w \in DOMAIN seg : seg[w] > 0}
    IN [nan |-> labeled = {},
        twice |-> IF labeled = {} THEN 0 ELSE MedianTwice(labeled, activity)]

\* variant: the threshold itself counts as sufficient activity
ActivityMask_AtLeast(med, activity, v) == ~med.nan /\ 3 * activity[v] >= med.twice

\* pet > 2/3 * median, in exact arithmetic; every comparison with nan is False
ActivityMask(med, activity, v) == ~med.nan /\ 3 * activity[v] > med.twice

refine_aorta_with_pet_uptake(seg, activity) ==
    LET med == LabeledMedian(seg, activity)
    IN [v \in DOMAIN seg |-> IF ActivityMask(med, activity, v) THEN seg[v] ELSE 0]

(* ----------------------- create_cylindrical_voi ------------------------ *)
\* int(round(p / q)) for p >= 0, q > 0: Python rounds halves to even
RoundHalfEven(p, q) ==
    LET fl == p \div q
        r2 == 2 * (p % q)
    IN IF r2 < q THEN fl
       ELSE IF r2 > q THEN fl + 1
       ELSE IF fl % 2 = 0 THEN fl ELSE fl + 1

RECURSIVE SumOver(_, _)
SumOver(S, f) ==
    IF S = {} THEN 0
    ELSE LET v == CHOOSE w \in S : TRUE IN f[v] + SumOver(S \ {v}, f)

\* variant: the cross-section taken as cylinder_width voxels, not its square
SlicesNeeded_Linear(voxel_size, volume, cylinder_width) ==
    LET voxel_volume == voxel_size[1] * voxel_size[2] * voxel_size[3]
        target_voxels == volume \div voxel_volume
    IN Max2(1, (target_voxels + cylinder_width - 1) \div cylinder_width)

\* lines 121-129
SlicesNeeded(voxel_size, volume, cylinder_width) ==
    LET voxel_volume == voxel_size[1] * voxel_size[2] * voxel_size[3]
        target_voxels == volume \div voxel_volume
        voxels_per_slice == cylinder_width * cylinder_width
    IN Max2(1, (target_voxels + voxels_per_slice - 1) \div voxels_per_slice)

\* line 133: per-slice median over the zone (doubled), 0 where the slice is empty
MedianAxialUptake(sh, zone, activity) ==
    [sl \in 1 .. sh[3] |->
        LET inslice == {v \in zone : v[3] = sl - 1}
        IN IF inslice = {} THEN 0 ELSE MedianTwice(inslice, activity)]

\* scipy.ndimage.uniform_filter(profile, n), mode='reflect', as window sums
\* (the division by n does not change the argmax)
uniform_filter(profile, n) ==
    LET L == Len(profile)
        win(i) == [j \in 1 .. n |-> profile[ReflectIndex(i - 1 - n \div 2 + j - 1, L) + 1]]
    IN [i \in 1 .. L |-> SumOver(1 .. n, win(i))]

\* np.argmax: the first position (0-based) of the maximum
argmax(arr) ==
    (CHOOSE i \in 1 .. Len(arr) :
        /\ \A j \in 1 .. Len(arr) : arr[j] <= arr[i]
        /\ \A j \in 1 .. i - 1 : arr[j] < arr[i]) - 1

\* line 135
StartSlice(sh, zone, activity, n) ==
    argmax(uniform_filter(MedianAxialUptake(sh, zone, activity), n)) - n \div 2

\* the axial slice a (possibly negative) numpy index addresses
Wrapped(slc, L) == IF slc < 0 THEN slc + L ELSE slc

\* lines 140-142 for one slice: "IndexError" when slc is out of bounds,
\* "ValueError" when the slice holds no activity (centre of mass is nan)
SeedAt(sh, zone, activity, slc) ==
    LET L == sh[3]
        cells == {v \in zone : v[3] = Wrapped(slc, L)}
        mass == SumOver(cells, activity)
        mx == SumOver(cells, [v \in cells |-> v[1] * activity[v]])
        my == SumOver(cells, [v \in cells |-> v[2] * activity[v]])
    IN IF slc < 0 - L \/ slc >= L THEN [error |-> "IndexError", seed |-> <<>>]
       ELSE IF mass = 0 THEN [error |-> "ValueError", seed |-> <<>>]
       ELSE [error |-> "none",
             seed |-> <<RoundHalfEven(mx, mass), RoundHalfEven(my, mass),
                        Wrapped(slc, L)>>]

\* binary_dilation with np.ones((w, w, 1)): the structuring element is centred
\* at w // 2 and what falls outside the array is dropped
binary_dilation(sh, seeds, w) ==
    {v \in Voxels(sh) :
        \E s \in seeds :
            /\ v[3] = s[3]
            /\ v[1] - s[1] \in (0 - w \div 2) .. (w - 1 - w \div 2)
            /\ v[2] - s[2] \in (0 - w \div 2) .. (w - 1 - w \div 2)}

PlaceSeeds(sh, zone, activity, start_slice, n) ==
    [k \in 1 .. n |-> SeedAt(sh, zone, activity, start_slice + k - 1)]

CylinderFrom(sh, w, start_slice, n, placed) ==
    IF \E k \in 1 .. n : placed[k].error # "none"
    THEN [error |-> placed[CHOOSE k \in 1 .. n :
                              /\ placed[k].error # "none"
                              /\ \A j \in 1 .. k - 1 : placed[j].error = "none"].error,
          voi |-> {}, start_slice |-> start_slice, n_slices |-> n]
    ELSE [error |-> "none",
          voi |-> binary_dilation(sh, {placed[k].seed : k \in 1 .. n}, w),
          start_slice |-> start_slice, n_slices |-> n]

PlaceCylinder(sh, zone, activity, w, start_slice, n) ==
    CylinderFrom(sh, w, start_slice, n, PlaceSeeds(sh, zone, activity, start_slice, n))

PlaceAtPeak(sh, zone, activity, w, n) ==
    PlaceCylinder(sh, zone, activity, w, StartSlice(sh, zone, activity, n), n)

create_cylindrical_voi(sh, zone, activity, voxel_size, volume, cylinder_width) ==
    PlaceAtPeak(sh, zone, activity, cylinder_width,
                SlicesNeeded(voxel_size, volume, cylinder_width))

(* -------------------------- extract_aorta_vois ------------------------- *)
\* swapaxes(1, 2)
SwapVoxel(v) == <<v[1], v[3], v[2]>>
SwapShape(sh) == <<sh[1], sh[3], sh[2]>>
SwapSet(S) == {SwapVoxel(v) : v \in S}
SwapFrame(sh, f) == [v \in Voxels(SwapShape(sh)) |-> f[SwapVoxel(v)]]

SwapBack(r) == [r EXCEPT !.voi = SwapSet(r.voi)]

\* lines 229-237: the VOI of one AortaSegment; TOP is placed along the y axis
SegmentVoi(sh, seg, activity, p, code) ==
    LET aorta_segment == {v \in DOMAIN seg : seg[v] = code}
    IN IF code = TOP
       THEN SwapBack(create_cylindrical_voi(SwapShape(sh), SwapSet(aorta_segment),
                        SwapFrame(sh, activity),
                        <<p.voxel_size[1], p.voxel_size[3], p.voxel_size[2]>>,
                        p.volume, p.cylinder_width))
       ELSE create_cylindrical_voi(sh, aorta_segment, activity, p.voxel_size,
                        p.volume, p.cylinder_width)

(* ------------------------------ voxel_patlak --------------------------- *)
\* OverlappedChunkIterator: the descriptor of the step at position cur
ChunkDescriptor(L, C, B, cur) ==
    LET start_idx == Max2(0, cur - B)
        out_size == Min2(L, cur + C) - cur
    IN [start_idx |-> start_idx,
        end_idx |-> Min2(L, cur + C + B),
        valid_start |-> cur - start_idx,
        valid_end |-> cur - start_idx + out_size,
        out_start |-> cur,
        out_size |-> out_size]

\* line 39
border_size(gaussian_filter_size) ==
    IF gaussian_filter_size > 0 THEN 3 * gaussian_filter_size ELSE 0

\* the length of a[lo:hi] for 0 <= lo, hi on an axis of length n
SliceLen(n, lo, hi) == Max2(0, Min2(n, hi) - Min2(n, lo))

\* line 58: the extent of valid_chunk along the chunked axis
ValidLen(d) ==
    SliceLen(SliceLen(d.end_idx, d.start_idx, d.end_idx), d.valid_start, d.valid_end)

\* variant: the slopes stored from the start of the read window
StoreRange_ReadStart(L, d) ==
    {i \in 0 .. L - 1 : d.start_idx <= i /\ i < d.start_idx + d.out_size}

\* line 62: the indices out[..., out_start:out_start + out_size] addresses
StoreRange(L, d) ==
    {i \in 0 .. L - 1 : d.out_start <= i /\ i < d.out_start + d.out_size}

\* line 62 raises ValueError unless slopes fits the addressed range (a single
\* slice of slopes is broadcast)
StoreFits(L, d) ==
    ValidLen(d) = Cardinality(StoreRange(L, d)) \/ ValidLen(d) = 1

(* ------------------------------ inputs --------------------------------- *)
\* cross-sections of an axial slice, as sets of <<x, y>> cells
RowLeft == {<<0, 0>>}
RowRight == {<<2, 0>>}
RowBoth == {<<0, 0>>, <<2, 0>>}
RowBar == {<<0, 0>>, <<1, 0>>, <<2, 0>>}
RowThree == {<<0, 0>>, <<2, 0>>, <<4, 0>>}

SegPalette == {RowLeft, RowRight, RowBoth, RowBar}

VolumeOf(rows) ==
    UNION {{<<c[1], c[2], z - 1>> : c \in rows[z]} : z \in DOMAIN rows}

PaletteShape(nz) == <<5, 1, nz>>

\* n copies of a cross-section
Rep(row, n) == [i \in 1 .. n |-> row]

\* any stack of palette cross-sections, of full height or shorter than a pattern
InitStack ==
    \E nz \in {Len(PatternStart) - 1, MaxSlices} :
      \E rows \in [1 .. nz -> SegPalette] :
        /\ shape = PaletteShape(nz)
        /\ aorta = VolumeOf(rows)

\* a one-component slices, b slices of two or three components, c one-component
InitRuns ==
    \E a \in 3 .. MaxRun, b \in 3 .. MaxRun, c \in 3 .. MaxRun :
      \E lo \in [1 .. a -> {RowLeft, RowBar}],
         mid \in [1 .. b -> {RowBoth, RowThree}] :
        /\ shape = PaletteShape(a + b + c)
        /\ aorta = VolumeOf(lo \o mid \o Rep(RowBar, c))

\* a tube that splits and rejoins twice
InitArches ==
    \E a \in 2 .. MaxRun, b \in 2 .. MaxRun, c \in 2 .. MaxRun,
       d \in 2 .. MaxRun, e \in 0 .. MaxRun :
        /\ shape = PaletteShape(a + b + c + d + e)
        /\ aorta = VolumeOf(Rep(RowLeft, a) \o Rep(RowBoth, b) \o Rep(RowBar, c)
                              \o Rep(RowBoth, d) \o Rep(RowBar, e))

DefaultParams == [voxel_size |-> <<1, 1, 1>>, volume |-> 1000, cylinder_width |-> 3]

NoPlacement == [start_slice |-> 0, n_slices |-> 0]

NoWindow == [start_idx |-> 0, end_idx |-> 0, valid_start |-> 0, valid_end |-> 0,
             out_start |-> 0, out_size |-> 0]

NoChunks == [array_size |-> 0, chunk_size |-> 0, border_size |-> 0, current |-> 0]

IdleRoi ==
    /\ boundaries = <<>>
    /\ aorta_segments = NoVolume
    /\ seg_i = 0
    /\ vois = NoVolume
    /\ placement = NoPlacement

IdlePatlak ==
    /\ chunks = NoChunks
    /\ window = NoWindow
    /\ out = <<>>

Idle ==
    /\ pc = "start"
    /\ error = "none"
    /\ IdleRoi
    /\ IdlePatlak

Init ==
    /\ InitStack \/ InitRuns \/ InitArches
    /\ pet = NoVolume
    /\ params = DefaultParams
    /\ Idle

\* a cross-section repeated over ny rows of the y axis
Thicken(row, ny) == {<<c[1], y>> : c \in row, y \in 0 .. ny - 1}

\* activity constant within each axial slice: 3 everywhere but in slice k
DimSlice(sh, k, a) == [v \in Voxels(sh) |-> IF v[3] = k THEN a ELSE 3]

\* masks of one arch, with an activity frame and placement parameters
InitExtract ==
    /\ \E a \in 2 .. MaxLeg, b \in 3 .. MaxLeg, c \in 2 .. MaxLeg, ny \in {1, 2},
          low \in {RowLeft, RowRight} :
         /\ shape = <<3, ny, a + b + c>>
         /\ aorta = VolumeOf(Rep(Thicken(low, ny), a) \o Rep(Thicken(RowBoth, ny), b)
                               \o Rep(Thicken(RowBar, ny), c))
    /\ \E k \in 0 .. shape[3] - 1, dim \in 1 .. 3 : pet = DimSlice(shape, k, dim)
    /\ \E w \in {1, 3}, vol \in {1, 2} :
         params = [voxel_size |-> <<1, 1, 1>>, volume |-> vol, cylinder_width |-> w]
    /\ Idle

\* cross-sections of a zone: a corner tube, a central tube, a two-voxel tube
ZoneSections == {{<<0, 0>>}, {<<1, 1>>}, {<<1, 1>>, <<2, 1>>}}

\* activity constant within each axial slice: 1 everywhere but in slice k
PeakSlice(sh, k) == [v \in Voxels(sh) |-> IF v[3] = k THEN 2 ELSE 1]

\* one zone mask (a tube over slices z1..z2) with an activity frame
InitCylinder ==
    /\ shape = <<CylWidth, CylWidth, CylSlices>>
    /\ \E sec \in ZoneSections, z1 \in 0 .. CylSlices - 1, z2 \in 0 .. CylSlices - 1 :
         /\ z1 <= z2
         /\ aorta = {<<c[1], c[2], z>> : c \in sec, z \in z1 .. z2}
    /\ \E k \in 0 .. CylSlices : pet = PeakSlice(shape, k)
    /\ \E vs \in {<<1, 1, 1>>, <<1, 1, 2>>}, vol \in 0 .. MaxVolume, w \in 1 .. MaxWidth :
         params = [voxel_size |-> vs, volume |-> vol, cylinder_width |-> w]
    /\ Idle

\* voxel_patlak on an axis of length L, lines 37-46
InitPatlak ==
    /\ pc = "start"
    /\ error = "none"
    /\ \E L \in 0 .. MaxLen, C \in 0 .. MaxChunk,
          B \in (0 .. MaxBorder) \union {border_size(g) : g \in 0 .. MaxSigma} :
         /\ chunks = [array_size |-> L, chunk_size |-> C, border_size |-> B,
                      current |-> 0]
         /\ out = [i \in 1 .. L |-> 0]
    /\ window = NoWindow
    /\ shape = <<0, 0, 0>>
    /\ aorta = {}
    /\ pet = NoVolume
    /\ params = DefaultParams
    /\ IdleRoi

(* ------------------------------ actions -------------------------------- *)
\* segment_aorta(aorta_mask)
SegmentAorta ==
    /\ pc = "start"
    /\ \E r \in {segment_aorta(shape, aorta)} :
          /\ boundaries' = r.ix
          /\ aorta_segments' = r.seg
          /\ error' = r.error
          /\ pc' = IF r.error = "none" THEN "segmented" ELSE "raised"
    /\ UNCHANGED <<shape, aorta, pet, params, seg_i, vois, placement, patlakVars>>

\* lines 219-225 of extract_aorta_vois
Refine ==
    /\ pc = "segmented"
    /\ aorta_segments' = refine_aorta_with_pet_uptake(aorta_segments, pet)
    /\ vois' = [v \in Voxels(shape) |-> 0]
    /\ seg_i' = ASCENDING
    /\ pc' = "refined"
    /\ UNCHANGED <<shape, aorta, pet, params, boundaries, placement, error, patlakVars>>

\* one turn of the loop of lines 228-238
CreateVoi ==
    /\ pc = "refined"
    /\ seg_i \in 1 .. 4
    /\ \E r \in {SegmentVoi(shape, aorta_segments, pet, params, seg_i)} :
          /\ placement' = [start_slice |-> r.start_slice, n_slices |-> r.n_slices]
          /\ error' = r.error
          /\ IF r.error = "none"
             THEN /\ vois' = [v \in Voxels(shape) |-> IF v \in r.voi THEN seg_i ELSE vois[v]]
                  /\ seg_i' = seg_i + 1
                  /\ pc' = pc
             ELSE /\ pc' = "raised"
                  /\ UNCHANGED <<vois, seg_i>>
    /\ UNCHANGED <<shape, aorta, pet, params, boundaries, aorta_segments, patlakVars>>

\* line 240
Return ==
    /\ pc = "refined"
    /\ seg_i = 5
    /\ pc' = "returned"
    /\ UNCHANGED <<roiVars, error, patlakVars>>

\* create_cylindrical_voi(aorta, pet, ...) called on one zone mask
CreateCylindricalVoi ==
    /\ pc = "start"
    /\ \E r \in {create_cylindrical_voi(shape, aorta, pet, params.voxel_size,
                                        params.volume, params.cylinder_width)} :
          /\ placement' = [start_slice |-> r.start_slice, n_slices |-> r.n_slices]
          /\ error' = r.error
          /\ vois' = [v \in Voxels(shape) |-> IF v \in r.voi THEN 1 ELSE 0]
          /\ pc' = IF r.error = "none" THEN "placed" ELSE "raised"
    /\ UNCHANGED <<shape, aorta, pet, params, boundaries, aorta_segments, seg_i, patlakVars>>

\* one turn of the loop of lines 49-62; the regression over an empty chunk
\* either raises or yields no slopes
ChunkStep ==
    /\ pc = "start"
    /\ chunks.current < chunks.array_size
    /\ \E d \in {ChunkDescriptor(chunks.array_size, chunks.chunk_size,
                                 chunks.border_size, chunks.current)} :
          /\ window' = d
          /\ \/ /\ StoreFits(chunks.array_size, d)
                /\ out' = [i \in 1 .. chunks.array_size |->
                             IF i - 1 \in StoreRange(chunks.array_size, d)
                             THEN out[i] + 1 ELSE out[i]]
                /\ chunks' = [chunks EXCEPT !.current = @ + chunks.chunk_size]
                /\ UNCHANGED <<pc, error>>
             \/ /\ ~StoreFits(chunks.array_size, d) \/ ValidLen(d) = 0
                /\ pc' = "raised"
                /\ error' = "ValueError"
                /\ UNCHANGED <<chunks, out>>
    /\ UNCHANGED roiVars

\* line 64, once the iterator is exhausted
PatlakReturn ==
    /\ pc = "start"
    /\ chunks.current >= chunks.array_size
    /\ pc' = "returned"
    /\ UNCHANGED <<error, roiVars, patlakVars>>

Next == SegmentAorta

Spec == Init /\ [][Next]_vars

NextExtract == SegmentAorta \/ Refine \/ CreateVoi \/ Return

SpecExtract == InitExtract /\ [][NextExtract]_vars

NextCylinder == CreateCylindricalVoi

SpecCylinder == InitCylinder /\ [][NextCylinder]_vars

NextPatlak == ChunkStep \/ PatlakReturn

SpecPatlak == InitPatlak /\ [][NextPatlak]_vars

(* ===================== claims on segment_aorta ========================= *)
Labeled(k) == {v \in DOMAIN aorta_segments : aorta_segments[v] = k}

PreArchComponents == label(shape, {v \in aorta : v[3] < boundaries[2]})

\* every mask voxel carries one of the codes 1..4, every other voxel 0
IsPartition ==
    /\ pc = "segmented"
    /\ DOMAIN aorta_segments = Voxels(shape)
    /\ \A v \in Voxels(shape) :
         IF v \in aorta THEN aorta_segments[v] \in 1 .. 4 ELSE aorta_segments[v] = 0
    /\ UNION {Labeled(k) : k \in 1 .. 4} = aorta
    /\ \A j \in 1 .. 4, k \in 1 .. 4 : j # k => Labeled(j) \cap Labeled(k) = {}

\* C1 as stated: whenever boundary detection succeeds, segment_aorta returns a
\* labeling that partitions the input mask into the four codes.
C1_Original == (pc # "start" /\ boundaries # <<>>) => IsPartition

\* C1 amended: when boundary detection succeeds and the pre-arch part of the
\* mask has at most two connected components, segment_aorta returns a
\* labeling that partitions the input mask into the four codes; with three or
\* more components it raises IndexError and returns nothing.
C1_Partition ==
    (pc # "start" /\ boundaries # <<>>) =>
        IF Len(PreArchComponents) <= 2
        THEN IsPartition
        ELSE pc = "raised" /\ error = "IndexError" /\ aorta_segments = NoVolume

C1_Witness ==
    /\ pc = "segmented"
    /\ Len(PreArchComponents) = 2
    /\ \A k \in 1 .. 4 : Labeled(k) # {}

Occurrences(seq, pat) ==
    Cardinality({i \in 1 .. Len(seq) :
                   /\ i + Len(pat) - 1 <= Len(seq)
                   /\ SubSeq(seq, i, i + Len(pat) - 1) = pat})

ExactlyOnceEach(sm) ==
    Occurrences(sm, <<1, 1, 2, 2>>) = 1 /\ Occurrences(sm, <<2, 2, 1, 1>>) = 1

FailsIffNotOnce(sm) ==
    IF ExactlyOnceEach(sm)
    THEN error # "ValueError" /\ boundaries # <<>>
    ELSE pc = "raised" /\ error = "ValueError"
         /\ boundaries = <<>> /\ aorta_segments = NoVolume

\* C2: boundary detection raises, and no segmentation is returned, exactly
\* when the clamped, median-smoothed count sequence does not hold each of
\* [1,1,2,2] and [2,2,1,1] exactly once.
C2_FailsUnlessOnce ==
    pc # "start" =>
        \E sm \in {SmoothedIslands(shape, aorta)} : FailsIffNotOnce(sm)

C2_Witness ==
    /\ pc = "raised"
    /\ error = "ValueError"
    /\ Occurrences(SmoothedIslands(shape, aorta), <<1, 1, 2, 2>>) >= 2

\* raw counts: a slices of one component, b of two or more, c of one
IsRuns(cnt, a, b, c) ==
    /\ Len(cnt) = a + b + c
    /\ \A i \in 1 .. Len(cnt) :
         IF i <= a \/ i > a + b THEN cnt[i] = 1 ELSE cnt[i] >= 2

RunsGiveBoundaries(cnt) ==
    \A a \in 3 .. Len(cnt), b \in 3 .. Len(cnt) :
        (Len(cnt) - a - b >= 3 /\ IsRuns(cnt, a, b, Len(cnt) - a - b))
            => boundaries = <<a, a + b>>

\* C3: for counts 1^a (>=2)^b 1^c with a, b, c >= 3 boundary detection
\* succeeds with start_index = a and curve_index = a + b.
C3_RunBoundaries ==
    pc # "start" =>
        \E cnt \in {count_axial_components(shape, aorta)} : RunsGiveBoundaries(cnt)

RunsWitness(cnt) ==
    /\ \E i \in 1 .. Len(cnt) : cnt[i] = 3
    /\ \E a \in 3 .. Len(cnt), b \in 4 .. Len(cnt) :
         /\ Len(cnt) - a - b >= 3
         /\ IsRuns(cnt, a, b, Len(cnt) - a - b)
         /\ boundaries = <<a, a + b>>

C3_Witness ==
    /\ pc # "start"
    /\ \E cnt \in {count_axial_components(shape, aorta)} : RunsWitness(cnt)

\* a straight one-voxel tube at the low indices bending into a horizontal bar
JShaped ==
    \E k \in 1 .. shape[3] - 1 :
        aorta = VolumeOf(Rep(RowLeft, k) \o Rep(RowBar, shape[3] - k))

AllSingle(cnt) == \A i \in 1 .. Len(cnt) : cnt[i] = 1

\* C8 as stated: on a J-shaped mask segment_aorta completes and all four
\* codes are present in its output.
C8_Original ==
    (JShaped /\ pc # "start") =>
        (pc = "segmented" /\ \A k \in 1 .. 4 : Labeled(k) # {})

\* C8 amended: on a mask every axial slice of which holds one connected
\* component (a J-shaped mask among them) segment_aorta does not complete:
\* boundary detection raises and no label is produced.
C8_SingleTubeRaises ==
    pc # "start" =>
        \E cnt \in {count_axial_components(shape, aorta)} :
            AllSingle(cnt) =>
                (pc = "raised" /\ error = "ValueError" /\ aorta_segments = NoVolume)

C8_Witness == JShaped /\ shape[3] = MaxSlices /\ pc = "raised"

SegmentRule(comps, v) ==
    LET small == IF Cardinality(comps[1]) < Cardinality(comps[2])
                 THEN comps[1] ELSE comps[2]
    IN IF v[3] >= boundaries[2] THEN TOP
       ELSE IF v \in small THEN ASCENDING
       ELSE IF v[3] < boundaries[1] THEN DESCENDING_BOTTOM
       ELSE DESCENDING

FollowsRule(comps) ==
    (Len(comps) = 2 /\ Cardinality(comps[1]) # Cardinality(comps[2])) =>
        /\ \A v \in aorta : aorta_segments[v] = SegmentRule(comps, v)
        /\ \A v \in Labeled(DESCENDING) : v[3] >= boundaries[1]
        /\ \A v \in Labeled(TOP) : v[3] >= boundaries[2]

\* C9: with two pre-arch components of different size, a mask voxel is TOP
\* from curve_index on, else ASCENDING in the smaller component, else
\* DESCENDING_BOTTOM below start_index and DESCENDING from start_index on.
C9_LabelRule ==
    pc = "segmented" => \E comps \in {PreArchComponents} : FollowsRule(comps)

C9_Witness ==
    /\ pc = "segmented"
    /\ Len(PreArchComponents) = 2
    /\ Cardinality(PreArchComponents[1]) < Cardinality(PreArchComponents[2])
    /\ \A k \in 1 .. 4 : Labeled(k) # {}

(* ================ claims on refine_aorta_with_pet_uptake =============== *)
\* the labels segment_aorta returned, before refinement
PriorLabels == segment_aorta(shape, aorta).seg

Refined == seg_i # 0

LabeledMedianTwice(prior) == MedianTwice({w \in DOMAIN prior : prior[w] > 0}, pet)

ZeroedBelow(prior, m2) ==
    \A v \in Voxels(shape) :
        aorta_segments[v] = IF 3 * pet[v] < m2 THEN 0 ELSE prior[v]

ZeroedUpTo(prior, m2) ==
    \A v \in Voxels(shape) :
        aorta_segments[v] = IF 3 * pet[v] <= m2 THEN 0 ELSE prior[v]

\* C5 as stated: exactly the voxels whose activity is below two-thirds of the
\* median over the labeled voxels become 0; a voxel at or above it keeps its label.
C5_Original ==
    (Refined /\ pc # "raised") =>
        \E prior \in {PriorLabels} :
            \E m2 \in {LabeledMedianTwice(prior)} : ZeroedBelow(prior, m2)

\* C5 amended: exactly the voxels whose activity is at or below two-thirds of
\* the median over the labeled voxels become 0; a voxel strictly above it
\* keeps its label.
C5_ZeroedAtOrBelow ==
    (Refined /\ pc # "raised") =>
        \E prior \in {PriorLabels} :
            \E m2 \in {LabeledMedianTwice(prior)} : ZeroedUpTo(prior, m2)

RefineWitness(prior, m2) ==
    /\ \E v \in Voxels(shape) :
         prior[v] > 0 /\ 3 * pet[v] = m2 /\ aorta_segments[v] = 0
    /\ \E v \in Voxels(shape) :
         prior[v] > 0 /\ 3 * pet[v] > m2 /\ aorta_segments[v] = prior[v]

C5_Witness ==
    /\ pc = "refined"
    /\ \E prior \in {PriorLabels} :
         \E m2 \in {LabeledMedianTwice(prior)} : RefineWitness(prior, m2)

(* ==================== claims on extract_aorta_vois ===================== *)
\* C6: in the returned VOI volume every voxel holding code k is labeled k in
\* the refined segmentation returned with it.
C6_VoiWithinZone ==
    pc = "returned" =>
        \A v \in Voxels(shape) : vois[v] # 0 => aorta_segments[v] = vois[v]

(* ================== claims on create_cylindrical_voi =================== *)
VoiVoxels == {v \in DOMAIN vois : vois[v] = 1}

VoxelVolume == params.voxel_size[1] * params.voxel_size[2] * params.voxel_size[3]

Abs(x) == IF x >= 0 THEN x ELSE 0 - x

\* achieved and target volume in mm^3 differ by at most W * W voxel volumes
WithinOneQuantum ==
    Abs(Cardinality(VoiVoxels) * VoxelVolume - params.volume)
        <= params.cylinder_width * params.cylinder_width * VoxelVolume

UniformInside == \A v \in aorta, w \in aorta : pet[v] = pet[w]

SeedSlices == placement.start_slice .. placement.start_slice + placement.n_slices - 1

\* the W x W window around every seed lies inside the volume
WindowsInside ==
    \A slc \in SeedSlices :
        LET s == SeedAt(shape, aorta, pet, slc).seed
            lo == params.cylinder_width \div 2
            hi == params.cylinder_width - 1 - params.cylinder_width \div 2
        IN /\ s[1] - lo >= 0 /\ s[1] + hi <= shape[1] - 1
           /\ s[2] - lo >= 0 /\ s[2] + hi <= shape[2] - 1

C10_SeedsInRange ==
    pc = "placed" =>
        /\ placement.start_slice >= 0
        /\ placement.start_slice + placement.n_slices <= shape[3]
        /\ {v[3] : v \in VoiVoxels} = SeedSlices

(* ======================== claims on voxel_patlak ======================= *)
\* the indices below the iterator's position stored to once, the others never;
\* all of them once voxel_patlak has returned; every read window within [0, L]
WritesPartition ==
    /\ error = "none"
    /\ \A i \in 1 .. chunks.array_size :
         out[i] = IF i <= chunks.current THEN 1 ELSE 0
    /\ pc # "start" => \A i \in 1 .. chunks.array_size : out[i] = 1
    /\ 0 <= window.start_idx /\ window.start_idx <= window.end_idx
    /\ window.end_idx <= chunks.array_size
    /\ window.start_idx <= window.out_start
    /\ window.out_start + window.out_size <= window.end_idx

\* C4 as stated: for any L, C, B >= 0 the write ranges partition [0, L), no
\* read window leaves [0, L), and every output index is stored by exactly one step.
C4_Original == WritesPartition

\* C4 amended: for any L >= 0, B >= 0 and C >= 1 the write ranges partition
\* [0, L), no read window leaves [0, L), and every output index is stored by
\* exactly one step.
C4_Partition == chunks.chunk_size >= 1 => WritesPartition

C4_Witness ==
    /\ pc = "returned"
    /\ chunks.border_size >= 1
    /\ chunks.chunk_size >= 2
    /\ chunks.array_size > 2 * chunks.chunk_size
    /\ chunks.array_size % chunks.chunk_size # 0
    /\ window.end_idx - window.start_idx < chunks.chunk_size + chunks.border_size

====
